---------------------------- MODULE Spec2Model ----------------------------
(***************************************************************************)
(* Yin pitch estimation of streamvc/f0.py: estimate, _frame, _diff,        *)
(* _search and F0Estimator.forward.                                        *)
(*                                                                         *)
(* A call is followed through the stages of estimate: the precondition,    *)
(* _frame, _diff (with the slice at tau_min), _search and the conversion   *)
(* of the lag to a frequency.  Signals are one-dimensional (no batch       *)
(* dimensions) and integer valued, so that every sum below is exact; a     *)
(* CMDF value and a pitch are fractions <<numerator, denominator>>.  The   *)
(* FFT pair of _diff is modelled by what it computes in exact arithmetic,  *)
(* the circular autocorrelation of the frame zero-padded to fft_size.      *)
(***************************************************************************)
EXTENDS Integers, Sequences, FiniteSets

VARIABLES pc, entry, trace, err,
          signal, sample_rate, frame_length, frame_stride, pitch_max, threshold,
          tau_min, tau_max, frames, fft_size, diff, cmdf, tau, pitch,
          x_in, F_in

vars == <<pc, entry, trace, err,
          signal, sample_rate, frame_length, frame_stride, pitch_max, threshold,
          tau_min, tau_max, frames, fft_size, diff, cmdf, tau, pitch,
          x_in, F_in>>

---------------------------------------------------------------------------
(* Bounds of the model. *)

\* longest signal handed to estimate (to forward: MaxT - 2)
MaxT == 6
\* largest frame_length handed to estimate (the smallest is -1)
MaxL == 6
\* largest frame_stride handed to estimate (the smallest is 0)
MaxS == 2
\* largest frame_length of an F0Estimator
MaxF == 2
\* longest CMDF row handed to _search directly
MaxN == 4

\* sample values of the signals
SampleVals == {0, 1}
\* <<sample_rate, pitch_max>> (Hz) handed to estimate
Rates == {<<-2, 1>>, <<-1, 1>>, <<-1, 2>>, <<0, 1>>, <<1, 2>>, <<1, 1>>, <<2, 1>>}
\* sample rates of an F0Estimator
SampleRates == {-1, 0, 1, 2}
\* thresholds handed to estimate and _search: 1/10 (the default) and 1/2
Thresholds == {<<1, 10>>, <<1, 2>>}
\* CMDF values of the rows handed to _search directly
CmdfVals == {<<0, 1>>, <<1, 20>>, <<1, 4>>, <<1, 1>>}

\* frame lengths n < 65536 at which float64 gives log(n) > log2(n) * log(2),
\* so that the floor division of line 75 of f0.py lands one below -log2(n)
FloatLogOvershoot == {32, 512, 1024, 2048}

\* the least of these frame lengths, and the signals framed with it:
\* silence and a pulse train of period 8
LongLen == CHOOSE n \in FloatLogOvershoot : \A m \in FloatLogOvershoot : n <= m
LongSignals == { [i \in 1..LongLen |-> 0],
                 [i \in 1..LongLen |-> IF i % 8 = 1 THEN 1 ELSE 0] }

\* pulse trains of period 2 and 3, longer than MaxT
PulseTrains == { [i \in 1..8 |-> IF i % 2 = 1 THEN 1 ELSE 0],
                 [i \in 1..9 |-> IF i % 3 = 1 THEN 1 ELSE 0] }

SeqsUpTo(S, n) == UNION { [1..k -> S] : k \in 0..n }

---------------------------------------------------------------------------
(* Arithmetic. *)

Abs(a) == IF a < 0 THEN -a ELSE a
Max(a, b) == IF a >= b THEN a ELSE b
Min(a, b) == IF a <= b THEN a ELSE b

\* floor(a / b), b > 0
FloorDiv(a, b) == a \div b

\* Python's int(a / b): the quotient truncated toward zero, b > 0
PyInt(a, b) == IF a >= 0 THEN a \div b ELSE -((-a) \div b)

RECURSIVE Pow2(_)
Pow2(n) == IF n <= 0 THEN 1 ELSE 2 * Pow2(n - 1)

\* ceil(log2(n)), n >= 1
RECURSIVE CeilLog2(_)
CeilLog2(n) == IF n <= 1 THEN 0 ELSE 1 + CeilLog2((n + 1) \div 2)

\* s[lo] + ... + s[hi], by halves
RECURSIVE SumRange(_, _, _)
SumRange(s, lo, hi) ==
    IF lo > hi THEN 0
    ELSE IF lo = hi THEN s[lo]
    ELSE LET mid == (lo + hi) \div 2
         IN  SumRange(s, lo, mid) + SumRange(s, mid + 1, hi)

SeqSum(s) == SumRange(s, 1, Len(s))

\* fractions with a positive denominator
RatLT(a, b) == a[1] * b[2] < b[1] * a[2]
RatGE(a, b) == a[1] * b[2] >= b[1] * a[2]

Zeros(n) == [i \in 1..n |-> 0]

\* s[k:] of Python: a negative k counts from the end
PySliceFrom(s, k) ==
    LET n == Len(s)
        start == IF k < 0 THEN Max(n + k, 0) ELSE Min(k, n)
    IN  SubSeq(s, start + 1, n)

---------------------------------------------------------------------------
(* estimate, lines 46-51: the lags and the precondition. *)

TauMin(sr, pm) == PyInt(sr, pm)
TauMax(L) == PyInt(L, 2)

\* the assertion with <= for <
PreconditionOkLe(sr, pm, L) == TauMin(sr, pm) <= TauMax(L)

PreconditionOk(sr, pm, L) == TauMin(sr, pm) < TauMax(L)

---------------------------------------------------------------------------
(* _frame *)

\* Tensor.unfold(-1, size, step): the windows, or the error torch raises
unfold(x, size, step) ==
    IF size > Len(x) \/ size < 0 \/ step <= 0
    THEN [ok |-> FALSE, frames |-> <<>>]
    ELSE [ok |-> TRUE,
          frames |-> [k \in 1..((Len(x) - size) \div step + 1) |->
                         SubSeq(x, (k - 1) * step + 1, (k - 1) * step + size)]]

PadRight(x, L) == IF Len(x) < L THEN x \o Zeros(L - Len(x)) ELSE x

_frame(x, L, S) == unfold(PadRight(x, L), L, S)

---------------------------------------------------------------------------
(* _diff *)

\* -np.log(n) // np.log(2) in float64, n >= 1
NegLogFloorDiv(n) ==
    IF n \in FloatLogOvershoot THEN -(CeilLog2(n) + 1) ELSE -CeilLog2(n)

\* line 75: 2 ** (-int(-np.log(n) // np.log(2)) + 1)
FftSize(n) == Pow2(-NegLogFloorDiv(n) + 1)

\* rfft(frames, n): the frame zero-padded to n samples
ZeroPad(x, n) == [i \in 1..n |-> IF i <= Len(x) THEN x[i] ELSE 0]

\* irfft(fft * fft.conj())[t]: the circular autocorrelation of period n
CircCorr(xp, t) ==
    LET n == Len(xp)
    IN  SeqSum([j \in 1..n |-> xp[j] * xp[((j - 1 + t) % n) + 1]])

\* the cumulative sum without the leading 0 of the pad
SqrcsInclusive(x) ==
    [k \in 1..(Len(x) + 1) |-> SeqSum([j \in 1..Min(k, Len(x)) |-> x[j] * x[j]])]

\* line 80: pad(cumsum(x * x), [1, 0]); entry k + 1 is the energy of x[0..k-1]
Sqrcs(x) == [k \in 1..(Len(x) + 1) |-> SeqSum([j \in 1..(k - 1) |-> x[j] * x[j]])]

\* lines 75-83: the raw difference of one frame; entry t + 1 is lag t
RawDiff(x, tmax, n) ==
    LET L == Len(x)
        xp == ZeroPad(x, n)
        sq == Sqrcs(x)
        corr_0 == sq[L + 1]
    IN  [t1 \in 1..Max(tmax, 0) |->
            LET t == t1 - 1
            IN  corr_0 + (sq[L - t + 1] - sq[t + 1]) - 2 * CircCorr(xp, t)]

\* 1 / 1e-5, the floor of the normaliser of line 91
EpsInv == 100000

\* lines 86-93: entry t is lag t, the fraction diff[t] * t / max(cumsum, 1e-5)
Normalise(d) ==
    [t \in 1..Max(Len(d) - 1, 0) |->
        LET c == SeqSum([s \in 1..t |-> d[s + 1]])
        IN  IF c >= 1 THEN <<d[t + 1] * t, c>>
                      ELSE <<d[t + 1] * t * EpsInv, 1>>]

\* _diff on one frame, given the FFT size
CmdfRow(x, tmax, n) == Normalise(RawDiff(x, tmax, n))

\* _diff fails on frames of length 0: log(0) is -inf and int(nan) raises
_diff(fs, tmax) ==
    LET L == Len(fs[1])
    IN  IF L < 1
        THEN [ok |-> FALSE, n |-> 0, raw |-> <<>>, rows |-> <<>>]
        ELSE [ok |-> TRUE, n |-> FftSize(L),
              raw |-> [k \in 1..Len(fs) |-> RawDiff(fs[k], tmax, FftSize(L))],
              rows |-> [k \in 1..Len(fs) |-> CmdfRow(fs[k], tmax, FftSize(L))]]

---------------------------------------------------------------------------
(* _search *)

\* mask.int().argmax(-1): the first index (from 0) that holds, 0 if none does
ArgmaxFirst(mask) ==
    LET hits == {i \in 1..Len(mask) : mask[i]}
    IN  IF hits = {} THEN 0
        ELSE (CHOOSE i \in hits : \A j \in hits : i <= j) - 1

\* lines 99-100 without the torch.where of line 100
FirstBelowNoSentinel(row, tmax, thr) ==
    ArgmaxFirst([i \in 1..Len(row) |-> RatLT(row[i], thr)])

\* lines 99-100
FirstBelow(row, tmax, thr) ==
    LET a == ArgmaxFirst([i \in 1..Len(row) |-> RatLT(row[i], thr)])
    IN  IF a > 0 THEN a ELSE tmax

\* line 104: cmdf.diff() >= 0, padded with one True on the right
IncreasingSlope(row) ==
    [i \in 1..Len(row) |-> IF i = Len(row) THEN TRUE ELSE RatGE(row[i + 1], row[i])]

\* _search on one row: the selected index (from 0)
SearchRow(row, tmax, thr) ==
    LET first_below == FirstBelow(row, tmax, thr)
        slope == IncreasingSlope(row)
    IN  ArgmaxFirst([i \in 1..Len(row) |-> (i - 1 >= first_below) /\ slope[i]])

\* argmax raises on a dimension of size 0
_search(rows, tmax, thr) ==
    IF Len(rows[1]) = 0
    THEN [ok |-> FALSE, tau |-> <<>>]
    ELSE [ok |-> TRUE, tau |-> [k \in 1..Len(rows) |-> SearchRow(rows[k], tmax, thr)]]

---------------------------------------------------------------------------
(* estimate, lines 59-63: a lag of 0 is a pitch of 0, any other lag t is  *)
(* sample_rate / (t + tau_min + 1), kept as the fraction the code divides. *)

Pitch(t, sr, tmin) == IF t > 0 THEN <<sr, t + tmin + 1>> ELSE <<0, 1>>

\* F.pad(x, (F, F), "constant", 0)
PadBoth(x, F) == Zeros(F) \o x \o Zeros(F)

\* pitch_max of estimate when the caller gives none
DefaultPitchMax == 20000
\* threshold of estimate when the caller gives none
DefaultThreshold == <<1, 10>>

---------------------------------------------------------------------------

Init ==
    /\ pc = "idle"
    /\ entry = "none"
    /\ trace = <<>>
    /\ err = "none"
    /\ signal = <<>>
    /\ sample_rate = 0
    /\ frame_length = 0
    /\ frame_stride = 0
    /\ pitch_max = 0
    /\ threshold = <<0, 1>>
    /\ tau_min = 0
    /\ tau_max = 0
    /\ frames = <<>>
    /\ fft_size = 0
    /\ diff = <<>>
    /\ cmdf = <<>>
    /\ tau = <<>>
    /\ pitch = <<>>
    /\ x_in = <<>>
    /\ F_in = 0

Signals == SeqsUpTo(SampleVals, MaxT) \cup PulseTrains \cup LongSignals

\* the frame lengths a signal is framed with
FrameLengths(x) == IF x \in LongSignals THEN {LongLen} ELSE (-1)..MaxL

Begin(e, x, sr, L, S, pm, thr) ==
    /\ entry' = e
    /\ signal' = x
    /\ sample_rate' = sr
    /\ frame_length' = L
    /\ frame_stride' = S
    /\ pitch_max' = pm
    /\ threshold' = thr
    /\ pc' = "estimate"
    /\ UNCHANGED <<trace, err, tau_min, tau_max, frames, fft_size, diff, cmdf, tau, pitch>>

\* a call of estimate
CallEstimate ==
    /\ pc = "idle"
    /\ \E x \in Signals, r \in Rates, S \in 0..MaxS, thr \in Thresholds :
          \E L \in FrameLengths(x) : Begin("estimate", x, r[1], L, S, r[2], thr)
    /\ UNCHANGED <<x_in, F_in>>

\* F0Estimator(sample_rate, frame_length).forward(x), lines 117-119
CallForward ==
    /\ pc = "idle"
    /\ \E x \in SeqsUpTo(SampleVals, MaxT - 2), sr \in SampleRates, F \in 1..MaxF :
          /\ x_in' = x
          /\ F_in' = F
          /\ Begin("forward", PadBoth(x, F), sr, F * 3, F, DefaultPitchMax, DefaultThreshold)

\* a call of _search on one row, with tau_max beyond the row as estimate gives it
CallSearch ==
    /\ pc = "idle"
    /\ \E row \in SeqsUpTo(CmdfVals, MaxN), thr \in Thresholds, k \in 1..2 :
          /\ entry' = "_search"
          /\ cmdf' = <<row>>
          /\ tau_max' = Len(row) + k
          /\ threshold' = thr
    /\ pc' = "search"
    /\ UNCHANGED <<trace, err, signal, sample_rate, frame_length, frame_stride,
                   pitch_max, tau_min, frames, fft_size, diff, tau, pitch, x_in, F_in>>

Fail(stage, e) ==
    /\ pc' = "failed"
    /\ err' = e
    /\ trace' = Append(trace, stage)

\* estimate, lines 46-51
Precondition ==
    /\ pc = "estimate"
    /\ tau_min' = TauMin(sample_rate, pitch_max)
    /\ tau_max' = TauMax(frame_length)
    /\ IF PreconditionOk(sample_rate, pitch_max, frame_length)
       THEN /\ pc' = "frame"
            /\ trace' = Append(trace, "assert")
            /\ err' = err
       ELSE Fail("assert", "AssertionError")
    /\ UNCHANGED <<entry, signal, sample_rate, frame_length, frame_stride, pitch_max,
                   threshold, frames, fft_size, diff, cmdf, tau, pitch, x_in, F_in>>

\* estimate, line 54
Frame ==
    /\ pc = "frame"
    /\ LET r == _frame(signal, frame_length, frame_stride)
       IN  IF r.ok
           THEN /\ frames' = r.frames
                /\ pc' = "diff"
                /\ trace' = Append(trace, "_frame")
                /\ err' = err
           ELSE /\ Fail("_frame", "RuntimeError")
                /\ frames' = frames
    /\ UNCHANGED <<entry, signal, sample_rate, frame_length, frame_stride, pitch_max,
                   threshold, tau_min, tau_max, fft_size, diff, cmdf, tau, pitch, x_in, F_in>>

\* estimate, line 55: _diff and the slice [..., tau_min:]
Diff ==
    /\ pc = "diff"
    /\ LET r == _diff(frames, tau_max)
       IN  IF r.ok
           THEN /\ cmdf' = [k \in 1..Len(frames) |-> PySliceFrom(r.rows[k], tau_min)]
                /\ fft_size' = r.n
                /\ diff' = r.raw
                /\ pc' = "search"
                /\ trace' = Append(trace, "_diff")
                /\ err' = err
           ELSE /\ Fail("_diff", "ValueError")
                /\ UNCHANGED <<cmdf, fft_size, diff>>
    /\ UNCHANGED <<entry, signal, sample_rate, frame_length, frame_stride, pitch_max,
                   threshold, tau_min, tau_max, frames, tau, pitch, x_in, F_in>>

\* estimate, line 56, or _search called on its own
Search ==
    /\ pc = "search"
    /\ LET r == _search(cmdf, tau_max, threshold)
       IN  IF r.ok
           THEN /\ tau' = r.tau
                /\ pc' = IF entry = "_search" THEN "done" ELSE "convert"
                /\ trace' = Append(trace, "_search")
                /\ err' = err
           ELSE /\ Fail("_search", "IndexError")
                /\ tau' = tau
    /\ UNCHANGED <<entry, signal, sample_rate, frame_length, frame_stride, pitch_max,
                   threshold, tau_min, tau_max, frames, fft_size, diff, cmdf, pitch, x_in, F_in>>

\* estimate, lines 59-63
Convert ==
    /\ pc = "convert"
    /\ pitch' = [k \in 1..Len(tau) |-> Pitch(tau[k], sample_rate, tau_min)]
    /\ pc' = "done"
    /\ trace' = Append(trace, "where")
    /\ UNCHANGED <<entry, err, signal, sample_rate, frame_length, frame_stride, pitch_max,
                   threshold, tau_min, tau_max, frames, fft_size, diff, cmdf, tau, x_in, F_in>>

Next ==
    \/ CallEstimate
    \/ CallForward
    \/ CallSearch
    \/ Precondition
    \/ Frame
    \/ Diff
    \/ Search
    \/ Convert

Spec == Init /\ [][Next]_vars

---------------------------------------------------------------------------
(* Properties. *)

\* estimate was called, directly or through forward
Called == entry \in {"estimate", "forward"}
\* the call has returned or raised
Finished == pc \in {"done", "failed"}
\* the precondition of estimate has been evaluated
Checked == Called /\ Len(trace) >= 1
\* no stage after the precondition has run and there is no output
OnlyAssertRan ==
    /\ trace = <<"assert">>
    /\ frames = <<>> /\ diff = <<>> /\ cmdf = <<>> /\ tau = <<>> /\ pitch = <<>>
\* sample_rate, frame_length and frame_stride are all positive
ValidParameters == sample_rate > 0 /\ frame_length > 0 /\ frame_stride > 0

\* q is a / b truncated toward zero, b > 0
IsTruncation(q, a, b) ==
    /\ Abs(q) * b <= Abs(a)
    /\ Abs(a) < (Abs(q) + 1) * b
    /\ (q > 0 => a > 0) /\ (q < 0 => a < 0)

\* q is floor(a / b), b > 0
IsFloor(q, a, b) == q * b <= a /\ a < (q + 1) * b

C2_InvalidParameterRejected ==
    (Called /\ (frame_length <= 0 \/ frame_stride <= 0 \/ sample_rate <= 0)) =>
        (pc # "done" /\ pitch = <<>>)

---------------------------------------------------------------------------
(* The Yin definitions the properties compare the code with. *)

\* _diff has returned
DiffDone == Called /\ fft_size > 0
\* _search has returned
SearchDone == tau # <<>>

\* the direct difference function: the sum of (x[j] - x[j + t])^2
DirectDiff(x, t) ==
    SeqSum([j \in 1..(Len(x) - t) |-> (x[j] - x[j + t]) * (x[j] - x[j + t])])

\* the linear autocorrelation: the sum of x[j] * x[j + t]
LinearCorr(x, t) == SeqSum([j \in 1..(Len(x) - t) |-> x[j] * x[j + t]])

\* the cumulative-mean-normalised difference at a lag >= 1, as a fraction
YinCmdf(x, lag) ==
    LET c == SeqSum([s \in 1..lag |-> DirectDiff(x, s)])
    IN  IF c >= 1 THEN <<DirectDiff(x, lag) * lag, c>>
                  ELSE <<DirectDiff(x, lag) * lag * EpsInv, 1>>

\* sample i (from 0) of x, 0 outside of it
SampleAt(x, i) == IF i >= 0 /\ i < Len(x) THEN x[i + 1] ELSE 0

IsPow2(n) == \E k \in 0..12 : n = Pow2(k)

\* the indices (from 0) of a row whose value is below the threshold
Below(row, thr) == {i \in 0..(Len(row) - 1) : RatLT(row[i + 1], thr)}
\* index j is the last of the row or the row does not decrease after it
IsDip(row, j) == j = Len(row) - 1 \/ RatGE(row[j + 2], row[j + 1])
MinOf(S) == CHOOSE i \in S : \A j \in S : i <= j

\* the lag the first-dip rule selects: from the first index below the
\* threshold (index 0 included) the first dip, 0 if no index is below it
FirstDip(row, thr) ==
    IF Below(row, thr) = {} THEN 0
    ELSE MinOf({j \in MinOf(Below(row, thr))..(Len(row) - 1) : IsDip(row, j)})

\* C3: for a signal of length T and frame_length L > 0, frame_stride S > 0
\* (and a positive sample rate) that pass the precondition, estimate returns
\* N = floor((max(T, L) - L) / S) + 1 pitch values, value k coming from the
\* window of L samples that starts at sample k * S of the padded signal.
C3_FrameCount ==
    (Checked /\ ValidParameters /\ tau_min < tau_max /\ Finished) =>
        LET L == frame_length
            N == FloorDiv(Max(Len(signal), L) - L, frame_stride) + 1
        IN  /\ pc = "done"
            /\ N >= 1 /\ Len(pitch) = N /\ Len(frames) = N
            /\ \A k \in 0..(N - 1) : \A i \in 0..(L - 1) :
                  frames[k + 1][i + 1] = SampleAt(signal, k * frame_stride + i)

\* C4: _search returns, for every row, the lag of the first-dip rule: 0 if
\* no value is below the threshold, else the first dip from the first index
\* below it, index 0 included.
C4_SearchFirstDip ==
    SearchDone =>
        \A k \in 1..Len(tau) : tau[k] = FirstDip(cmdf[k], threshold)

\* C5: for an all-zero signal and parameters with tau_min < tau_max (all of
\* them positive), estimate returns a pitch of exactly 0 for every frame.
C5_SilenceIsZero ==
    (Checked /\ ValidParameters /\ tau_min < tau_max /\ Finished
       /\ \A i \in 1..Len(signal) : signal[i] = 0) =>
        /\ pc = "done"
        /\ Len(pitch) >= 1
        /\ \A k \in 1..Len(pitch) : pitch[k] = <<0, 1>>

\* C6: the table handed to _search has tau_max - tau_min entries per frame,
\* at least one, and entry i is the CMDF at lag i + tau_min + 1.
C6_TableShape ==
    (DiffDone /\ ValidParameters) =>
        \A k \in 1..Len(cmdf) :
            /\ Len(cmdf[k]) = tau_max - tau_min
            /\ Len(cmdf[k]) >= 1
            /\ \A i \in 0..(Len(cmdf[k]) - 1) :
                  cmdf[k][i + 1] = YinCmdf(frames[k], i + tau_min + 1)

\* C7: at every lag t in 0 .. tau_max - 1 the raw difference _diff computes
\* from the cumulative sums of squares and the autocorrelation equals the
\* direct difference, the sum of (x[j] - x[j + t])^2; it is 0 at lag 0 and
\* never negative.
C7_DiffIdentity ==
    DiffDone =>
        \A k \in 1..Len(frames) :
            /\ Len(diff[k]) = tau_max
            /\ \A t \in 0..(tau_max - 1) :
                  /\ diff[k][t + 1] = DirectDiff(frames[k], t)
                  /\ diff[k][t + 1] >= 0
            /\ tau_max >= 1 => diff[k][1] = 0

\* C7, witness: _diff has produced a nonzero difference at a lag >= 1.
C7_Witness ==
    /\ DiffDone
    /\ \E k \in 1..Len(frames) : \E t \in 1..(tau_max - 1) : diff[k][t + 1] > 0

\* C8: the FFT size is the smallest power of two >= 2 * L, hence at least
\* L + tau_max, and the circular autocorrelation of the padded frame is the
\* linear one at every lag 0 .. tau_max - 1.
C8_FftSizeMinimal ==
    (DiffDone /\ ValidParameters) =>
        LET L == Len(frames[1])
        IN  /\ IsPow2(fft_size)
            /\ fft_size >= 2 * L
            /\ fft_size < 4 * L
            /\ fft_size >= L + tau_max
            /\ \A k \in 1..Len(frames) : \A t \in 0..(tau_max - 1) :
                  CircCorr(ZeroPad(frames[k], fft_size), t) = LinearCorr(frames[k], t)

\* C9: forward on a signal of length T with frame_length F > 0 (and a
\* positive sample rate) returns max(1, floor(T / F)) pitch values, and for
\* T >= F value k comes from the samples (k - 1) * F .. (k + 2) * F - 1 of
\* the signal, zeros where outside of it.
C9_ForwardFrames ==
    (entry = "forward" /\ sample_rate > 0 /\ Finished) =>
        LET N == Max(1, FloorDiv(Len(x_in), F_in))
        IN  /\ pc = "done"
            /\ Len(pitch) = N /\ Len(frames) = N
            /\ Len(x_in) >= F_in =>
                  \A k \in 0..(N - 1) : \A i \in 0..(3 * F_in - 1) :
                      frames[k + 1][i + 1] = SampleAt(x_in, (k - 1) * F_in + i)

\* C10: a nonzero lag j returned by _search has cmdf[j] below the threshold
\* and is a dip (the last index, or cmdf[j + 1] >= cmdf[j]); estimate turns
\* it into the pitch sample_rate / (j + tau_min + 1), a period within
\* tau_min + 2 .. tau_max - 1, and turns the lag 0 into the pitch 0.
C10_NonzeroLagIsDip ==
    SearchDone =>
        \A k \in 1..Len(tau) :
            LET j == tau[k]
                row == cmdf[k]
            IN  /\ j # 0 =>
                      /\ j \in 1..(Len(row) - 1)
                      /\ RatLT(row[j + 1], threshold)
                      /\ IsDip(row, j)
                /\ (Called /\ pc = "done") =>
                      /\ j # 0 =>
                            /\ pitch[k] = <<sample_rate, j + tau_min + 1>>
                            /\ j + tau_min + 1 \in (tau_min + 2)..(tau_max - 1)
                      /\ j = 0 => pitch[k] = <<0, 1>>

\* C10, witness: estimate has returned a pitch for a nonzero lag.
C10_Witness ==
    /\ Called /\ pc = "done" /\ sample_rate > 0
    /\ \E k \in 1..Len(tau) : tau[k] > 0 /\ pitch[k] = <<sample_rate, tau[k] + tau_min + 1>>

---------------------------------------------------------------------------
(* What the code does where C3, C5, C6, C8 and C9 fail: the statements     *)
(* hold of every call that returns, with the table one entry shorter.      *)

\* estimate has returned a pitch buffer
Returned == Called /\ pc = "done"

\* C3, of the calls that return: the number of pitch values and the windows.
Returned_FrameCount ==
    (Returned /\ frame_length > 0 /\ frame_stride > 0) =>
        LET L == frame_length
            N == FloorDiv(Max(Len(signal), L) - L, frame_stride) + 1
        IN  /\ N >= 1 /\ Len(pitch) = N /\ Len(frames) = N
            /\ \A k \in 0..(N - 1) : \A i \in 0..(L - 1) :
                  frames[k + 1][i + 1] = SampleAt(signal, k * frame_stride + i)

\* C5, of the calls that return: silence has pitch 0 in every frame.
Returned_SilenceIsZero ==
    (Returned /\ \A i \in 1..Len(signal) : signal[i] = 0) =>
        \A k \in 1..Len(pitch) : pitch[k] = <<0, 1>>

\* C6, as the code has it: tau_max - tau_min - 1 entries per frame, the lags
\* tau_min + 1 .. tau_max - 1, none when tau_min = tau_max - 1.
Actual_TableShape ==
    (DiffDone /\ tau_min >= 0) =>
        \A k \in 1..Len(cmdf) :
            /\ Len(cmdf[k]) = tau_max - tau_min - 1
            /\ \A i \in 0..(Len(cmdf[k]) - 1) :
                  cmdf[k][i + 1] = YinCmdf(frames[k], i + tau_min + 1)

\* an accepted call whose table is empty fails in _search
Actual_EmptyTableFails ==
    (Checked /\ Finished /\ ValidParameters /\ tau_min < tau_max) =>
        (pc = "failed" <=> tau_min = tau_max - 1)

\* C8, without the minimality: a power of two in 2 * L .. 4 * L, the larger
\* one exactly at the frame lengths of FloatLogOvershoot, and no wraparound.
Actual_FftSize ==
    DiffDone =>
        LET L == Len(frames[1])
        IN  /\ IsPow2(fft_size)
            /\ fft_size >= 2 * L /\ fft_size <= 4 * L
            /\ (fft_size >= 4 * L) <=> (L \in FloatLogOvershoot)
            /\ \A k \in 1..Len(frames) : \A t \in 0..(tau_max - 1) :
                  CircCorr(ZeroPad(frames[k], fft_size), t) = LinearCorr(frames[k], t)

\* C9, of the calls that return.
Returned_ForwardFrames ==
    (entry = "forward" /\ pc = "done") =>
        LET N == Max(1, FloorDiv(Len(x_in), F_in))
        IN  /\ Len(pitch) = N /\ Len(frames) = N
            /\ Len(x_in) >= F_in =>
                  \A k \in 0..(N - 1) : \A i \in 0..(3 * F_in - 1) :
                      frames[k + 1][i + 1] = SampleAt(x_in, (k - 1) * F_in + i)

=============================================================================
